---- MODULE Spec2Model ----
(***************************************************************************)
(* Model of the password vault of src/storage.py (key store, Fernet codec, *)
(* load/save service), of generate_password of src/generator.py and of the  *)
(* vault that src/gui.py keeps in memory (launch_app, save_password).      *)
(*                                                                         *)
(* Files are modelled by their existence and their bytes.  Bytes are       *)
(* sequences of chunks: the empty sequence is an empty file, one chunk is  *)
(* one base64 text (a Fernet key or a Fernet token).  The cryptography of  *)
(* the Fernet library is symbolic: an HMAC is the term of its key and its  *)
(* message, a ciphertext the term of its key, IV and plaintext.  Text is a *)
(* sequence of one-character strings; json.dumps and json.loads work on    *)
(* these characters.  A Python dict is a function; its iteration order is  *)
(* the order of LabelPool (dict equality does not depend on the order).    *)
(***************************************************************************)
EXTENDS Integers, Sequences, FiniteSets, TLC

\* ------------------------------------------------------------------ bounds
NumKeys == 2        \* distinct outcomes of os.urandom in Fernet.generate_key
MaxLen == 2         \* generate_password is called with a length up to MaxLen
NumIVs == 1         \* distinct outcomes of os.urandom(16) in Fernet.encrypt
MaxJunk == 1        \* bytes outside the base64 alphabet an editor may insert

\* ------------------------------------------------------ text, labels, dicts
LabelPool == << <<"a", "é">>, <<"\"", ",", "\\", "}">> >>
Labels == {LabelPool[i] : i \in 1..Len(LabelPool)}
Passwords == { <<"p", " ">>, <<"ñ", "\"">> }
Mappings == UNION {[D -> Passwords] : D \in SUBSET Labels}
EmptyDict == << >>
Times == {0}        \* time.time() when a save encrypts

NonAscii == {"é", "ñ"}
HexOf(c) == IF c = "é" THEN "00e9" ELSE "00f1"
HexCodes == {HexOf(c) : c \in NonAscii}
UnHex(h) == CHOOSE c \in NonAscii : HexOf(c) = h

RECURSIVE Flatten(_)
Flatten(ss) == IF ss = << >> THEN << >> ELSE Head(ss) \o Flatten(Tail(ss))

\* faulty variant: no character is escaped
JsonEscapeRaw(c) == <<c>>
\* json.dumps of one character of a str, ensure_ascii=True
JsonEscape(c) ==
    IF c = "\"" THEN <<"\\", "\"">>
    ELSE IF c = "\\" THEN <<"\\", "\\">>
    ELSE IF c \in NonAscii THEN <<"\\", "u", HexOf(c)>>
    ELSE <<c>>

JsonString(s) ==
    <<"\"">> \o Flatten([i \in 1..Len(s) |-> JsonEscape(s[i])]) \o <<"\"">>

\* the keys of a dict in iteration order
RECURSIVE KeysFrom(_, _)
KeysFrom(m, i) ==
    IF i > Len(LabelPool) THEN << >>
    ELSE (IF LabelPool[i] \in DOMAIN m THEN <<LabelPool[i]>> ELSE << >>)
         \o KeysFrom(m, i + 1)
DictKeys(m) == KeysFrom(m, 1)

\* json.dumps(data): '{"k": "v", "k2": "v2"}'
JsonDumps(m) ==
    LET ks == DictKeys(m)
        member(i) == (IF i > 1 THEN <<",", " ">> ELSE << >>)
                     \o JsonString(ks[i]) \o <<":", " ">> \o JsonString(m[ks[i]])
    IN <<"{">> \o Flatten([i \in 1..Len(ks) |-> member(i)]) \o <<"}">>

\* json.loads: scanner for a string, s[i] being the character after the
\* opening quote
Fail == [ok |-> FALSE, val |-> << >>, next |-> 0]
RECURSIVE ScanString(_, _, _)
ScanString(s, i, acc) ==
    IF i > Len(s) THEN Fail
    ELSE IF s[i] = "\"" THEN [ok |-> TRUE, val |-> acc, next |-> i + 1]
    ELSE IF s[i] = "\\" THEN
        IF i + 1 > Len(s) THEN Fail
        ELSE IF s[i + 1] \in {"\"", "\\"} THEN ScanString(s, i + 2, Append(acc, s[i + 1]))
        ELSE IF s[i + 1] = "u" /\ i + 2 <= Len(s) /\ s[i + 2] \in HexCodes
             THEN ScanString(s, i + 3, Append(acc, UnHex(s[i + 2])))
        ELSE Fail
    ELSE ScanString(s, i + 1, Append(acc, s[i]))

RECURSIVE SkipWs(_, _)
SkipWs(s, i) == IF i <= Len(s) /\ s[i] = " " THEN SkipWs(s, i + 1) ELSE i

DictSet(m, k, v) == [l \in DOMAIN m \cup {k} |-> IF l = k THEN v ELSE m[l]]

\* json.loads: the members of an object, s[i] being where a key is expected
RECURSIVE ScanMembers(_, _, _)
ScanMembers(s, i, m) ==
    LET a == SkipWs(s, i) IN
    IF a > Len(s) \/ s[a] # "\"" THEN Fail
    ELSE LET k == ScanString(s, a + 1, << >>) IN
    IF ~k.ok THEN Fail
    ELSE LET b == SkipWs(s, k.next) IN
    IF b > Len(s) \/ s[b] # ":" THEN Fail
    ELSE LET c == SkipWs(s, b + 1) IN
    IF c > Len(s) \/ s[c] # "\"" THEN Fail
    ELSE LET v == ScanString(s, c + 1, << >>) IN
    IF ~v.ok THEN Fail
    ELSE LET d == SkipWs(s, v.next)
             m2 == DictSet(m, k.val, v.val) IN
    IF d > Len(s) THEN Fail
    ELSE IF s[d] = "," THEN ScanMembers(s, d + 1, m2)
    ELSE IF s[d] = "}" THEN [ok |-> TRUE, val |-> m2, next |-> d + 1]
    ELSE Fail

\* json.loads(text) for a text holding an object of strings; ok = FALSE is
\* json.JSONDecodeError
JsonLoads(s) ==
    LET a == SkipWs(s, 1) IN
    IF a > Len(s) \/ s[a] # "{" THEN Fail
    ELSE LET b == SkipWs(s, a + 1) IN
    IF b > Len(s) THEN Fail
    ELSE LET r == IF s[b] = "}" THEN [ok |-> TRUE, val |-> EmptyDict, next |-> b + 1]
                  ELSE ScanMembers(s, b, EmptyDict) IN
    IF ~r.ok THEN Fail
    ELSE IF SkipWs(s, r.next) <= Len(s) THEN Fail
    ELSE r


\* ------------------------------------------------------------- storage.py
KEY_BYTES == 32     \* a Fernet key decodes to 32 bytes
FernetVersion == "0x80"
TokenFields == <<"ver", "ts", "iv", "ct", "tag">>

Procs == {1, 2}     \* processes sharing the two files
Main == 1           \* the process of the single-process application

VARIABLES
    keyFile,    \* KEY_FILE 'secret.key': [exists, bytes]
    blobFile,   \* PASSWORD_FILE 'passwords.enc': [exists, bytes]
    pc,         \* pc[p]: where process p stands in the function it runs
    op,         \* op[p]: the function process p was called with
    data,       \* data[p]: the argument of encrypt_and_save
    key,        \* key[p]: the local variable key
    encrypted,  \* encrypted[p]: the local variable encrypted
    ret,        \* ret[p]: how the last call of p ended and what it saw
    lastSave,   \* history: the last encrypt_and_save that completed, until
                \* another one opens the blob file
    prevSave,   \* history: the labels of the completed save before lastSave
    clean,      \* history: no file was changed since lastSave completed
    blobOld,    \* history: the blob file when the encrypt_and_save began that
                \* runs now or that a crash ended
    keyHist,    \* history: what the last two load_key calls returned
    firstKey,   \* history: the key file when it first existed after a call
    g,          \* generate_password: its arguments, locals and result
    SAVED_PASSWORDS,    \* gui.py, line 100: the vault in memory
    gui         \* the window: where the application stands, the last message
                \* box; history: the arguments of the last call of the save
                \* handler, the vault and the files when it was called

fileVars == <<keyFile, blobFile>>
procVars == <<pc, op, data, key, encrypted, ret>>
histVars == <<lastSave, prevSave, clean, blobOld, keyHist, firstKey>>
guiVars == <<SAVED_PASSWORDS, gui>>
vars == <<keyFile, blobFile, pc, op, data, key, encrypted, ret,
          lastSave, prevSave, clean, blobOld, keyHist, firstKey, g,
          SAVED_PASSWORDS, gui>>

\* ---- files
Absent == [exists |-> FALSE, bytes |-> << >>]
\* faulty variant: mode 'ab', the old bytes stay
OpenAppend(f) == [exists |-> TRUE, bytes |-> f.bytes]
\* open(path, 'wb'): creates the file or truncates it to no bytes
OpenWb(f) == [exists |-> TRUE, bytes |-> << >>]
\* f.write(b) on the file just opened, and the close that flushes it
FileWrite(f, b) == [exists |-> TRUE, bytes |-> f.bytes \o b]
\* faulty variants: the key is generated anew on every call; an empty key
\* file is taken for a missing one
KeyFileNeverFound(f) == FALSE
KeyFileFoundIfNonEmpty(f) == f.exists /\ f.bytes # << >>
\* open(KEY_FILE, 'rb') raises FileNotFoundError unless the file exists
KeyFileFound(f) == f.exists
\* faulty variant: the blob file is never found, every load returns {}
BlobFileNeverFound(f) == FALSE
\* open(PASSWORD_FILE, 'rb') raises FileNotFoundError unless the file exists
BlobFileFound(f) == f.exists

\* ---- base64 and Fernet (cryptography.fernet), symbolic
\* urlsafe_b64decode drops every byte outside the alphabet before decoding
B64Decode(b) == [i \in 1..Len(b) |-> [b[i] EXCEPT !.junk = 0]]

\* Fernet.generate_key(): urlsafe_b64encode(os.urandom(32)), r the random draw
GenerateKey(r) == << [k |-> r, n |-> KEY_BYTES, junk |-> 0] >>

\* Fernet(key): ValueError unless the key decodes to 32 bytes
FernetKeyOk(kb) ==
    LET d == B64Decode(kb) IN Len(d) = 1 /\ d[1].n = KEY_BYTES
RawKey(kb) == B64Decode(kb)[1].k

Aes(k, iv, pt) == [k |-> k, iv |-> iv, pt |-> pt, x |-> 0]
NoCt == [k |-> 0, iv |-> 0, pt |-> << >>, x |-> 0]
Hmac(k, ver, ts, iv, ct) ==
    [k |-> k, ver |-> ver, ts |-> ts, iv |-> iv, ct |-> ct, x |-> 0]
NoTag == [k |-> 0, ver |-> "", ts |-> 0, iv |-> 0, ct |-> NoCt, x |-> 0]

\* str.encode() / bytes.decode(): UTF-8 of a text that json.dumps left ASCII
\* only is one byte for each character
Utf8Encode(s) == s
Utf8Decode(b) == b

\* Fernet.encrypt(pt) at time ts with IV iv: version, timestamp, IV,
\* AES-CBC ciphertext and the HMAC of all four, base64 encoded
FernetEncrypt(kb, pt, ts, iv) ==
    LET k == RawKey(kb)
        ct == Aes(k, iv, pt)
    IN << [ver |-> FernetVersion, ts |-> ts, iv |-> iv, ct |-> ct,
           tag |-> Hmac(k, FernetVersion, ts, iv, ct),
           n |-> Len(TokenFields), junk |-> 0] >>

\* the first n fields of a token (a partial write, a truncation)
CutToken(t, n) ==
    [ver |-> t.ver,
     ts |-> IF n >= 2 THEN t.ts ELSE 0,
     iv |-> IF n >= 3 THEN t.iv ELSE 0,
     ct |-> IF n >= 4 THEN t.ct ELSE NoCt,
     tag |-> IF n >= 5 THEN t.tag ELSE NoTag,
     n |-> n, junk |-> t.junk]
CutBytes(b, n) == IF n = 0 \/ b = << >> THEN << >> ELSE << CutToken(b[1], n) >>

Invalid == [ok |-> FALSE, pt |-> << >>]
\* faulty variant: the plaintext is released without the HMAC being verified
FernetDecryptNoHmac(kb, b) ==
    LET d == B64Decode(b) IN
    IF Len(d) # 1 THEN Invalid ELSE [ok |-> TRUE, pt |-> d[1].ct.pt]
\* faulty variant: the token is opened with the key it was made with, whatever
\* key the caller holds
FernetDecryptAnyKey(kb, b) ==
    LET d == B64Decode(b) IN
    IF Len(d) # 1 THEN Invalid
    ELSE LET t == d[1] IN
    IF t.ver # FernetVersion \/ t.n < Len(TokenFields) THEN Invalid
    ELSE IF t.tag # Hmac(t.ct.k, t.ver, t.ts, t.iv, t.ct) THEN Invalid
    ELSE [ok |-> TRUE, pt |-> t.ct.pt]
\* Fernet.decrypt(token): ok = FALSE is cryptography.fernet.InvalidToken
FernetDecrypt(kb, b) ==
    LET d == B64Decode(b)
        k == RawKey(kb)
    IN IF Len(d) # 1 THEN Invalid                       \* no data, or trailing data
       ELSE LET t == d[1] IN
       IF t.ver # FernetVersion THEN Invalid
       ELSE IF t.n < Len(TokenFields) THEN Invalid      \* too short
       ELSE IF t.tag # Hmac(k, t.ver, t.ts, t.iv, t.ct) THEN Invalid
       ELSE IF t.ct.k # k \/ t.ct.x # 0 THEN Invalid    \* padding error
       ELSE [ok |-> TRUE, pt |-> t.ct.pt]


\* ---- the state machine of a process
NoRet == [op |-> "none", outcome |-> "none", map |-> EmptyDict,
          key |-> << >>, sawBlob |-> FALSE, blob |-> << >>]
NoSave == [set |-> FALSE, m |-> EmptyDict, k |-> 0, blob |-> << >>]
NoPrev == [set |-> FALSE, labels |-> {}]
NoKey == [set |-> FALSE, bytes |-> << >>]
NoGen == [pc |-> "idle", length |-> 0, use |-> << >>, characters |-> << >>,
          password |-> << >>, outcome |-> "none"]
\* the application does not run
NoGui == [pc |-> "off", msg |-> "none", called |-> FALSE,
          label |-> << >>, pw |-> << >>,
          saved |-> EmptyDict, keyFile |-> Absent, blobFile |-> Absent]

\* a fresh installation: neither file exists, no process has run
Init ==
    /\ keyFile = Absent
    /\ blobFile = Absent
    /\ pc = [p \in Procs |-> "idle"]
    /\ op = [p \in Procs |-> "none"]
    /\ data = [p \in Procs |-> EmptyDict]
    /\ key = [p \in Procs |-> << >>]
    /\ encrypted = [p \in Procs |-> << >>]
    /\ ret = [p \in Procs |-> NoRet]
    /\ lastSave = NoSave
    /\ prevSave = NoPrev
    /\ clean = FALSE
    /\ blobOld = Absent
    /\ keyHist = [prev |-> NoKey, last |-> NoKey]
    /\ firstKey = NoKey
    /\ g = NoGen
    /\ SAVED_PASSWORDS = EmptyDict
    /\ gui = NoGui

\* the end of a call of process p: its locals die, r is what the caller gets
Finish(p, r) ==
    /\ pc' = [pc EXCEPT ![p] = "idle"]
    /\ ret' = [ret EXCEPT ![p] = r]
    /\ key' = [key EXCEPT ![p] = << >>]
    /\ encrypted' = [encrypted EXCEPT ![p] = << >>]
    /\ data' = [data EXCEPT ![p] = EmptyDict]
    /\ op' = op

Begin(p, o, d) ==
    /\ pc[p] = "idle"
    /\ pc' = [pc EXCEPT ![p] = "lk_open"]
    /\ op' = [op EXCEPT ![p] = o]
    /\ data' = [data EXCEPT ![p] = d]
    /\ ret' = [ret EXCEPT ![p] = NoRet]
    /\ UNCHANGED <<key, encrypted, fileVars, lastSave, prevSave, clean, keyHist, firstKey, g>>

\* a caller calls load_key()
CallLoadKey(p) ==
    Begin(p, "load_key", EmptyDict) /\ blobOld' = Absent /\ UNCHANGED guiVars
\* a caller calls encrypt_and_save(m); line 134 calls load_key first
CallSave(p, m) ==
    Begin(p, "save", m) /\ blobOld' = blobFile /\ UNCHANGED guiVars
\* a caller calls load_and_decrypt(); line 160 calls load_key first
CallLoad(p) ==
    Begin(p, "load", EmptyDict) /\ blobOld' = Absent /\ UNCHANGED guiVars

\* load_key, line 106: open(KEY_FILE, 'rb')
LkOpen(p) ==
    /\ pc[p] = "lk_open"
    /\ pc' = [pc EXCEPT ![p] = IF KeyFileFound(keyFile) THEN "lk_read" ELSE "lk_gen"]
    /\ UNCHANGED <<op, data, key, encrypted, ret, fileVars, histVars, g, guiVars>>

\* load_key returns kb to the function that called it
LkReturn(p, kb) ==
    /\ keyHist' = [prev |-> keyHist.last, last |-> [set |-> TRUE, bytes |-> kb]]
    /\ IF op[p] = "load_key"
       THEN Finish(p, [NoRet EXCEPT !.op = "load_key", !.outcome = "ok", !.key = kb])
       ELSE /\ pc' = [pc EXCEPT ![p] = IF op[p] = "save" THEN "es_encrypt" ELSE "ld_open"]
            /\ key' = [key EXCEPT ![p] = kb]
            /\ UNCHANGED <<op, data, encrypted, ret>>

\* load_key, line 107: return f.read()
LkRead(p) ==
    /\ pc[p] = "lk_read"
    /\ LkReturn(p, keyFile.bytes)
    /\ UNCHANGED <<fileVars, lastSave, prevSave, clean, blobOld, firstKey, g, guiVars>>

\* load_key, line 109: key = Fernet.generate_key()
LkGen(p) ==
    /\ pc[p] = "lk_gen"
    /\ \E r \in 1..NumKeys : key' = [key EXCEPT ![p] = GenerateKey(r)]
    /\ pc' = [pc EXCEPT ![p] = "lk_create"]
    /\ UNCHANGED <<op, data, encrypted, ret, fileVars, histVars, g, guiVars>>

\* load_key, line 110: open(KEY_FILE, 'wb')
LkCreate(p) ==
    /\ pc[p] = "lk_create"
    /\ keyFile' = OpenWb(keyFile)
    /\ clean' = FALSE
    /\ pc' = [pc EXCEPT ![p] = "lk_write"]
    /\ UNCHANGED <<op, data, key, encrypted, ret, blobFile, lastSave, prevSave,
                   blobOld, keyHist, firstKey, g, guiVars>>

\* load_key, lines 111-112: f.write(key), the close, return key
LkWrite(p) ==
    /\ pc[p] = "lk_write"
    /\ keyFile' = FileWrite(keyFile, key[p])
    /\ firstKey' = IF firstKey.set THEN firstKey
                   ELSE [set |-> TRUE, bytes |-> keyFile'.bytes]
    /\ LkReturn(p, key[p])
    /\ UNCHANGED <<blobFile, lastSave, prevSave, clean, blobOld, g, guiVars>>

\* encrypt_and_save, lines 135-136: Fernet(key), json.dumps, encode, encrypt
EsEncrypt(p) ==
    /\ pc[p] = "es_encrypt"
    /\ IF ~FernetKeyOk(key[p])
       THEN Finish(p, [NoRet EXCEPT !.op = "save", !.outcome = "ValueError",
                                    !.key = key[p]])
       ELSE /\ \E ts \in Times, iv \in 1..NumIVs :
                 encrypted' = [encrypted EXCEPT ![p] =
                     FernetEncrypt(key[p], Utf8Encode(JsonDumps(data[p])), ts, iv)]
            /\ pc' = [pc EXCEPT ![p] = "es_open"]
            /\ UNCHANGED <<op, data, key, ret>>
    /\ UNCHANGED <<fileVars, histVars, g, guiVars>>

\* encrypt_and_save, line 137: open(PASSWORD_FILE, 'wb')
EsOpen(p) ==
    /\ pc[p] = "es_open"
    /\ blobFile' = OpenWb(blobFile)
    /\ clean' = FALSE
    /\ lastSave' = NoSave
    /\ prevSave' = IF lastSave.set THEN [set |-> TRUE, labels |-> DOMAIN lastSave.m]
                   ELSE prevSave
    /\ pc' = [pc EXCEPT ![p] = "es_write"]
    /\ UNCHANGED <<op, data, key, encrypted, ret, keyFile, blobOld,
                   keyHist, firstKey, g, guiVars>>

\* encrypt_and_save, line 138: file.write(encrypted), the close, the return
EsWrite(p) ==
    /\ pc[p] = "es_write"
    /\ blobFile' = FileWrite(blobFile, encrypted[p])
    /\ lastSave' = [set |-> TRUE, m |-> data[p], k |-> RawKey(key[p]),
                    blob |-> encrypted[p]]
    /\ clean' = TRUE
    /\ Finish(p, [NoRet EXCEPT !.op = "save", !.outcome = "ok", !.key = key[p],
                               !.blob = encrypted[p]])
    /\ blobOld' = Absent
    /\ UNCHANGED <<keyFile, prevSave, keyHist, firstKey, g, guiVars>>

\* load_and_decrypt, lines 161-163 and 166-167: Fernet(key), then
\* open(PASSWORD_FILE, 'rb'); FileNotFoundError returns {}
LdOpen(p) ==
    /\ pc[p] = "ld_open"
    /\ IF ~FernetKeyOk(key[p])
       THEN Finish(p, [NoRet EXCEPT !.op = "load", !.outcome = "ValueError",
                                    !.key = key[p]])
       ELSE IF ~BlobFileFound(blobFile)
       THEN Finish(p, [NoRet EXCEPT !.op = "load", !.outcome = "ok", !.key = key[p]])
       ELSE /\ pc' = [pc EXCEPT ![p] = "ld_read"]
            /\ UNCHANGED <<op, data, key, encrypted, ret>>
    /\ UNCHANGED <<fileVars, histVars, g, guiVars>>

\* faulty variant: "except Exception: return {}"
LoadsAnything(kb, b) ==
    LET d == FernetDecrypt(kb, b) IN
    IF ~d.ok THEN [outcome |-> "ok", map |-> EmptyDict]
    ELSE [outcome |-> "ok", map |-> JsonLoads(Utf8Decode(d.pt)).val]
\* load_and_decrypt, line 165: json.loads(fernet.decrypt(encrypted).decode());
\* no except clause catches InvalidToken or JSONDecodeError
DecryptAndLoads(kb, b) ==
    LET d == FernetDecrypt(kb, b) IN
    IF ~d.ok THEN [outcome |-> "InvalidToken", map |-> EmptyDict]
    ELSE LET j == JsonLoads(Utf8Decode(d.pt)) IN
         IF ~j.ok THEN [outcome |-> "JSONDecodeError", map |-> EmptyDict]
         ELSE [outcome |-> "ok", map |-> j.val]

\* load_and_decrypt, lines 164-165: read the file, decrypt, parse, return
LdRead(p) ==
    /\ pc[p] = "ld_read"
    /\ LET r == DecryptAndLoads(key[p], blobFile.bytes) IN
       Finish(p, [op |-> "load", outcome |-> r.outcome, map |-> r.map,
                  key |-> key[p], sawBlob |-> TRUE, blob |-> blobFile.bytes])
    /\ UNCHANGED <<fileVars, histVars, g, guiVars>>

\* what a write cut short leaves of a token: nothing, or all but its HMAC
PartialWrites == {0, Len(TokenFields) - 1}

\* the process dies inside a call (kill, power loss); while the blob is being
\* written, the first n fields of the token may have reached the file
Crash(p) ==
    /\ pc[p] # "idle"
    /\ IF pc[p] = "es_write"
       THEN \E n \in PartialWrites :
               blobFile' = FileWrite(blobFile, CutBytes(encrypted[p], n))
       ELSE blobFile' = blobFile
    /\ keyFile' = keyFile
    /\ firstKey' = IF ~firstKey.set /\ keyFile.exists
                   THEN [set |-> TRUE, bytes |-> keyFile.bytes] ELSE firstKey
    /\ Finish(p, [NoRet EXCEPT !.op = op[p], !.outcome = "crashed",
                               !.blob = encrypted[p]])
    /\ UNCHANGED <<lastSave, prevSave, clean, blobOld, keyHist, g, guiVars>>

Step(p) ==
    \/ CallLoadKey(p)
    \/ \E m \in Mappings : CallSave(p, m)
    \/ CallLoad(p)
    \/ LkOpen(p)
    \/ LkRead(p)
    \/ LkGen(p)
    \/ LkCreate(p)
    \/ LkWrite(p)
    \/ EsEncrypt(p)
    \/ EsOpen(p)
    \/ EsWrite(p)
    \/ LdOpen(p)
    \/ LdRead(p)
    \/ Crash(p)

\* the single-process application of the specification, crashes included
Next == Step(Main)
Spec == Init /\ [][Next]_vars


\* ---- the world outside the program, acting between two calls; what the
\* last call returned has been consumed by then
AllIdle == \A p \in Procs : pc[p] = "idle"
Consumed ==
    /\ ret' = [p \in Procs |-> NoRet]
    /\ blobOld' = Absent
    /\ prevSave' = NoPrev
    /\ clean' = FALSE
    /\ UNCHANGED <<pc, op, data, key, encrypted, lastSave, g, guiVars>>

\* what damage or an edit can make of the bytes of a well-formed key file:
\* an empty file, half a key, another key, bytes outside the alphabet added
KeyDamage(kb) ==
    {<< >>, << [kb[1] EXCEPT !.n = KEY_BYTES \div 2] >>}
    \cup {GenerateKey(r) : r \in (1..NumKeys) \ {kb[1].k}}
    \cup {<< [kb[1] EXCEPT !.junk = j] >> : j \in 1..MaxJunk}

\* what damage can make of the bytes of a token: a truncation, a changed
\* version, timestamp, IV, ciphertext or HMAC, bytes outside the alphabet added
BlobDamage(b) ==
    {CutBytes(b, n) : n \in PartialWrites}
    \cup {<< [b[1] EXCEPT !.ver = "0x81"] >>,
          << [b[1] EXCEPT !.ts = @ + 1] >>,
          << [b[1] EXCEPT !.iv = @ + 1] >>,
          << [b[1] EXCEPT !.ct.x = 1] >>,
          << [b[1] EXCEPT !.tag.x = 1] >>}
    \cup {<< [b[1] EXCEPT !.junk = j] >> : j \in 1..MaxJunk}

\* the key file is deleted after a save
EnvDeleteKey ==
    /\ AllIdle
    /\ keyFile.exists
    /\ lastSave.set
    /\ keyFile' = Absent
    /\ keyHist' = [prev |-> NoKey, last |-> NoKey]
    /\ firstKey' = NoKey
    /\ blobFile' = blobFile
    /\ Consumed

\* the bytes of a well-formed, undamaged key file are changed after a save
EnvDamageKey ==
    /\ AllIdle
    /\ keyFile.exists
    /\ lastSave.set
    /\ FernetKeyOk(keyFile.bytes)
    /\ keyFile.bytes = B64Decode(keyFile.bytes)
    /\ \E nb \in KeyDamage(keyFile.bytes) : keyFile' = [exists |-> TRUE, bytes |-> nb]
    /\ keyHist' = [prev |-> NoKey, last |-> NoKey]
    /\ firstKey' = NoKey
    /\ blobFile' = blobFile
    /\ Consumed

\* the bytes that the last save wrote to the blob file are changed
EnvDamageBlob ==
    /\ AllIdle
    /\ blobFile.exists
    /\ lastSave.set
    /\ blobFile.bytes = lastSave.blob
    /\ \E nb \in BlobDamage(blobFile.bytes) : blobFile' = [exists |-> TRUE, bytes |-> nb]
    /\ UNCHANGED <<keyFile, keyHist, firstKey>>
    /\ Consumed

\* the application, and a blob file that gets damaged between calls
NextBlobDamage == Next \/ EnvDamageBlob
SpecBlobDamage == Init /\ [][NextBlobDamage]_vars

\* the application, and a key file that gets deleted or changed between calls
NextKeyChange == Next \/ EnvDeleteKey \/ EnvDamageKey
SpecKeyChange == Init /\ [][NextKeyChange]_vars

\* two processes run the functions of storage.py against the same two files,
\* their steps interleaved in any order; neither crashes.  Each process may
\* call load_key first, saves one password at most once and loads as often as
\* it likes
RaceMappings == {m \in Mappings : Cardinality(DOMAIN m) = 1}
RaceStep(p) ==
    \/ (op[p] = "none" /\ CallLoadKey(p))
    \/ (op[p] \in {"none", "load_key"} /\ \E m \in RaceMappings : CallSave(p, m))
    \/ CallLoad(p)
    \/ LkOpen(p)
    \/ LkRead(p)
    \/ LkGen(p)
    \/ LkCreate(p)
    \/ LkWrite(p)
    \/ EsEncrypt(p)
    \/ EsOpen(p)
    \/ EsWrite(p)
    \/ LdOpen(p)
    \/ LdRead(p)
NextRace == \E p \in Procs : RaceStep(p)
SpecRace == Init /\ [][NextRace]_vars


\* ----------------------------------------------------------- generator.py
\* the four character sets of the string module, two characters standing for
\* each: string.ascii_uppercase, ascii_lowercase, digits, punctuation
CharSets == << <<"A", "Z">>, <<"a", "z">>, <<"0", "9">>, <<"!", "~">> >>
Flags == [1..Len(CharSets) -> BOOLEAN]
Lengths == (0 - 1)..MaxLen

\* faulty variant: every set is added, whatever the flags
CharactersAll(use, i) == CharSets[1] \o CharSets[2] \o CharSets[3] \o CharSets[4]
\* lines 68-76: characters += each selected set, in the order of the flags
RECURSIVE Characters(_, _)
Characters(use, i) ==
    IF i > Len(CharSets) THEN << >>
    ELSE (IF use[i] THEN CharSets[i] ELSE << >>) \o Characters(use, i + 1)

\* generate_password(length, use_upper, use_lower, use_digits, use_symbols)
GenCall ==
    /\ g.pc = "idle"
    /\ \E n \in Lengths, use \in Flags :
          g' = [pc |-> "build", length |-> n, use |-> use, characters |-> << >>,
                password |-> << >>, outcome |-> "none"]
    /\ UNCHANGED <<fileVars, procVars, histVars, guiVars>>

\* lines 68-79: build characters; ValueError if it is empty
GenBuild ==
    /\ g.pc = "build"
    /\ LET cs == Characters(g.use, 1) IN
       g' = IF cs = << >>
            THEN [g EXCEPT !.pc = "idle", !.outcome = "ValueError"]
            ELSE [g EXCEPT !.pc = "join", !.characters = cs]
    /\ UNCHANGED <<fileVars, procVars, histVars, guiVars>>

\* line 81: one round of the generator expression over range(length)
GenChoice ==
    /\ g.pc = "join"
    /\ Len(g.password) < g.length
    /\ \E i \in 1..Len(g.characters) :
          g' = [g EXCEPT !.password = Append(@, g.characters[i])]
    /\ UNCHANGED <<fileVars, procVars, histVars, guiVars>>

\* line 81: range(length) is exhausted, the joined string is returned
GenReturn ==
    /\ g.pc = "join"
    /\ Len(g.password) >= g.length
    /\ g' = [g EXCEPT !.pc = "idle", !.outcome = "ok"]
    /\ UNCHANGED <<fileVars, procVars, histVars, guiVars>>

NextGen == GenCall \/ GenBuild \/ GenChoice \/ GenReturn
SpecGen == Init /\ [][NextGen]_vars

\* ------------------------------------------------------------------ gui.py
\* what the label entry and the password field can hold when "Save" is
\* pressed: a label or nothing, a password or nothing
LabelInputs == Labels \cup {<< >>}
PasswordInputs == Passwords \cup {<< >>}

\* faulty variant: the vault is replaced by the one new entry
SetItemAlone(saved, label, password) == [l \in {label} |-> password]
\* save_password, line 123: SAVED_PASSWORDS[label] = password
SetItem(saved, label, password) == DictSet(saved, label, password)

\* faulty variant: only the label is tested
RejectsLabelOnly(label, pw) == label = << >>
\* save_password_handler, line 400: if not label or not pw
Rejects(label, pw) == label = << >> \/ pw = << >>

\* main.py starts the application: the module is loaded (line 100,
\* SAVED_PASSWORDS = {}) and launch_app calls load_and_decrypt() (line 277)
GuiLaunch ==
    /\ gui.pc = "off"
    /\ SAVED_PASSWORDS' = EmptyDict
    /\ gui' = [NoGui EXCEPT !.pc = "launching"]
    /\ Begin(Main, "load", EmptyDict)
    /\ blobOld' = Absent

\* launch_app, line 277: SAVED_PASSWORDS = what load_and_decrypt() returned;
\* the window is built and root.mainloop() waits for the user
GuiLaunchReturn ==
    /\ gui.pc = "launching"
    /\ pc[Main] = "idle"
    /\ ret[Main].outcome = "ok"
    /\ SAVED_PASSWORDS' = ret[Main].map
    /\ gui' = [gui EXCEPT !.pc = "ready"]
    /\ UNCHANGED <<fileVars, procVars, histVars, g>>

\* launch_app, line 277: load_and_decrypt() raised, or the process died in
\* it; nothing catches the exception and the application ends
GuiLaunchRaised ==
    /\ gui.pc = "launching"
    /\ pc[Main] = "idle"
    /\ ret[Main].outcome \notin {"ok", "none"}
    /\ SAVED_PASSWORDS' = EmptyDict
    /\ gui' = NoGui
    /\ UNCHANGED <<fileVars, procVars, histVars, g>>

\* save_password_handler(), lines 397-403, with the label and the password
\* read from the window; it rejects them, or save_password (lines 122-124)
\* sets the entry and calls encrypt_and_save(SAVED_PASSWORDS)
GuiSaveHandler(label, pw) ==
    /\ gui.pc = "ready"
    /\ pc[Main] = "idle"
    /\ IF Rejects(label, pw)
       THEN /\ gui' = [gui EXCEPT !.msg = "Error", !.called = TRUE,
                                  !.label = label, !.pw = pw,
                                  !.saved = SAVED_PASSWORDS,
                                  !.keyFile = keyFile, !.blobFile = blobFile]
            /\ UNCHANGED <<SAVED_PASSWORDS, fileVars, procVars, histVars, g>>
       ELSE /\ SAVED_PASSWORDS' = SetItem(SAVED_PASSWORDS, label, pw)
            /\ gui' = [gui EXCEPT !.pc = "saving", !.msg = "none", !.called = TRUE,
                                  !.label = label, !.pw = pw,
                                  !.saved = SAVED_PASSWORDS,
                                  !.keyFile = keyFile, !.blobFile = blobFile]
            /\ Begin(Main, "save", SAVED_PASSWORDS')
            /\ blobOld' = blobFile

\* save_password, line 125: encrypt_and_save returned, messagebox.showinfo
\* ("Saved", ...); the handler ends.  In a session of one process on files
\* nothing else touches, encrypt_and_save cannot raise: the launch has read
\* the key file as a well-formed key
GuiSaveReturn ==
    /\ gui.pc = "saving"
    /\ pc[Main] = "idle"
    /\ ret[Main].outcome = "ok"
    /\ gui' = [gui EXCEPT !.pc = "ready", !.msg = "Saved"]
    /\ UNCHANGED <<SAVED_PASSWORDS, fileVars, procVars, histVars, g>>

\* the process died inside encrypt_and_save: the session and its memory end
GuiDied ==
    /\ gui.pc = "saving"
    /\ pc[Main] = "idle"
    /\ ret[Main].outcome = "crashed"
    /\ SAVED_PASSWORDS' = EmptyDict
    /\ gui' = NoGui
    /\ UNCHANGED <<fileVars, procVars, histVars, g>>

\* the window is closed: root.mainloop() returns, the process ends
GuiClose ==
    /\ gui.pc = "ready"
    /\ SAVED_PASSWORDS' = EmptyDict
    /\ gui' = NoGui
    /\ UNCHANGED <<fileVars, procVars, histVars, g>>

\* the steps of storage.py inside a call the application has made
StorageStep(p) ==
    \/ LkOpen(p)
    \/ LkRead(p)
    \/ LkGen(p)
    \/ LkCreate(p)
    \/ LkWrite(p)
    \/ EsEncrypt(p)
    \/ EsOpen(p)
    \/ EsWrite(p)
    \/ LdOpen(p)
    \/ LdRead(p)
    \/ Crash(p)

\* sessions of the application, one after the other, on the same two files
NextGui ==
    \/ GuiLaunch
    \/ GuiLaunchReturn
    \/ GuiLaunchRaised
    \/ \E label \in LabelInputs, pw \in PasswordInputs : GuiSaveHandler(label, pw)
    \/ GuiSaveReturn
    \/ GuiDied
    \/ GuiClose
    \/ StorageStep(Main)
SpecGui == Init /\ [][NextGui]_vars

\* ------------------------------------------------------------- the claims
Returned(p, o) == ret[p].op = o /\ ret[p].outcome \notin {"none", "crashed"}

\* C1: after encrypt_and_save(M) has completed and while neither file has
\* been changed since, a load_and_decrypt() that ends returns exactly M; the
\* key is read again from the key file by every call.
C1_SaveThenLoad ==
    \A p \in Procs :
        (Returned(p, "load") /\ lastSave.set /\ clean)
            => (ret[p].outcome = "ok" /\ ret[p].map = lastSave.m)
C1_Witness ==
    /\ Returned(Main, "load") /\ lastSave.set /\ clean
    /\ ret[Main].outcome = "ok"
    /\ DOMAIN ret[Main].map = Labels
    /\ ret[Main].map = lastSave.m

\* C2: when no blob file exists, load_and_decrypt() returns the empty mapping
\* and does not raise, whether or not the key file exists.
C2_FirstRunLoad ==
    \A p \in Procs :
        (Returned(p, "load") /\ ~blobFile.exists)
            => (ret[p].outcome = "ok" /\ ret[p].map = EmptyDict)

\* C3, as claimed: when the blob file holds bytes other than those the last
\* save wrote, load_and_decrypt() ends in an error.
C3_DamageRaises ==
    \A p \in Procs :
        (Returned(p, "load") /\ ret[p].sawBlob /\ lastSave.set
         /\ ret[p].blob # lastSave.blob)
            => ret[p].outcome # "ok"
\* C3, amended: when the blob file holds bytes other than those the last save
\* wrote, load_and_decrypt() never returns a mapping other than the one last
\* saved: it ends in an error, unless the bytes still base64-decode to the
\* saved token, and then it returns the saved mapping.
C3_DamageNeverAlters ==
    \A p \in Procs :
        (Returned(p, "load") /\ ret[p].sawBlob /\ lastSave.set
         /\ ret[p].blob # lastSave.blob)
            => \/ ret[p].outcome # "ok"
               \/ /\ ret[p].map = lastSave.m
                  /\ B64Decode(ret[p].blob) = lastSave.blob
C3_Witness ==
    /\ Returned(Main, "load") /\ ret[Main].sawBlob /\ lastSave.set
    /\ ret[Main].blob # lastSave.blob
    /\ lastSave.m # EmptyDict
    /\ ret[Main].outcome = "InvalidToken"

\* C4: when the blob file holds what a save wrote under key K1 and the key
\* file gives load_and_decrypt() a well-formed key of other key material K2
\* (changed, or generated afresh after a deletion), it raises InvalidToken.
C4_WrongKey ==
    \A p \in Procs :
        (Returned(p, "load") /\ ret[p].sawBlob /\ lastSave.set
         /\ ret[p].blob = lastSave.blob
         /\ FernetKeyOk(ret[p].key) /\ RawKey(ret[p].key) # lastSave.k)
            => ret[p].outcome = "InvalidToken"
C4_Witness ==
    /\ Returned(Main, "load") /\ ret[Main].sawBlob /\ lastSave.set
    /\ ret[Main].blob = lastSave.blob
    /\ FernetKeyOk(ret[Main].key) /\ RawKey(ret[Main].key) # lastSave.k
    /\ keyFile.bytes = ret[Main].key
    /\ ret[Main].outcome = "InvalidToken"

\* C5: two successive returns of load_key(), the key file neither deleted nor
\* changed from outside between them, give the same bytes.
C5_KeyPersistence ==
    (keyHist.prev.set /\ keyHist.last.set)
        => keyHist.prev.bytes = keyHist.last.bytes
C5_Witness ==
    /\ keyHist.prev.set /\ keyHist.last.set
    /\ FernetKeyOk(keyHist.last.bytes)
    /\ keyHist.prev.bytes = keyHist.last.bytes
    /\ ret[Main].op = "load_key" /\ ret[Main].outcome = "ok"

\* C6: after a crash inside encrypt_and_save the blob file is what it was
\* when the call began, or it is the complete new blob.
C6_CrashSafeSave ==
    \A p \in Procs :
        (ret[p].op = "save" /\ ret[p].outcome = "crashed")
            => \/ blobFile = blobOld
               \/ /\ ret[p].blob # << >>
                  /\ blobFile = [exists |-> TRUE, bytes |-> ret[p].blob]

\* C7: load_key() never returns an empty key.
C7_NeverEmptyKey == keyHist.last.set => keyHist.last.bytes # << >>

\* C8: once the key file exists after a call, no load_key, encrypt_and_save
\* or load_and_decrypt changes its bytes.
C8_KeyWrittenOnce ==
    firstKey.set => keyFile = [exists |-> TRUE, bytes |-> firstKey.bytes]
C8_Witness ==
    /\ firstKey.set /\ keyFile.bytes = firstKey.bytes
    /\ keyHist.prev.set /\ lastSave.set /\ prevSave.set
    /\ Returned(Main, "load")

\* C9: after a save of M2 that follows a save of M1 the blob file holds
\* exactly M2, and a load returns M2 with no label that only M1 had.
C9_FullOverwrite ==
    (lastSave.set /\ prevSave.set /\ clean)
        => /\ LET r == DecryptAndLoads(keyFile.bytes, blobFile.bytes)
              IN r.outcome = "ok" /\ r.map = lastSave.m
           /\ \A p \in Procs :
                 Returned(p, "load")
                     => /\ ret[p].map = lastSave.m
                        /\ (prevSave.labels \ DOMAIN lastSave.m)
                               \cap DOMAIN ret[p].map = {}
C9_Witness ==
    /\ lastSave.set /\ prevSave.set /\ clean
    /\ Returned(Main, "load")
    /\ ret[Main].map = lastSave.m
    /\ prevSave.labels \ DOMAIN lastSave.m # {}
    /\ lastSave.m # EmptyDict

\* C10: generate_password raises ValueError when no character set is
\* selected or the length is zero or negative; it returns no password then.
C10_InvalidArgsRaise ==
    (g.pc = "idle" /\ g.outcome # "none"
     /\ ((\A i \in DOMAIN g.use : ~g.use[i]) \/ g.length <= 0))
        => g.outcome = "ValueError"


\* C11: for a length n >= 1 and at least one flag set, generate_password
\* returns a string of exactly n characters, each from a selected character
\* set and from no set that is not selected.
SetOf(i) == {CharSets[i][j] : j \in 1..Len(CharSets[i])}
C11_GeneratedPassword ==
    (g.pc = "idle" /\ g.outcome # "none" /\ g.length >= 1
     /\ \E i \in DOMAIN g.use : g.use[i])
        => /\ g.outcome = "ok"
           /\ Len(g.password) = g.length
           /\ \A j \in 1..Len(g.password) :
                 /\ \E i \in DOMAIN g.use : g.use[i] /\ g.password[j] \in SetOf(i)
                 /\ \A i \in DOMAIN g.use : ~g.use[i] => g.password[j] \notin SetOf(i)
C11_Witness ==
    /\ g.pc = "idle" /\ g.outcome = "ok"
    /\ g.length = MaxLen /\ Len(g.password) = MaxLen
    /\ g.use[1] /\ ~g.use[2] /\ g.use[3] /\ ~g.use[4]
    /\ g.password[1] \in SetOf(3) /\ g.password[MaxLen] \in SetOf(1)

\* C12: two processes that run load_key() at the same time while no key file
\* exists can end with different keys (the witness is such an interleaving);
\* whenever one of them has saved under its key and the key file is left with
\* a well-formed key of other key material, a load that reads that key and
\* that blob ends with InvalidToken.
C12_RaceLosesBlob ==
    \A p \in Procs, q \in Procs :
        (/\ Returned(p, "save") /\ ret[p].outcome = "ok"
         /\ Returned(q, "load") /\ ret[q].sawBlob
         /\ ret[q].blob = ret[p].blob
         /\ FernetKeyOk(ret[q].key)
         /\ RawKey(ret[q].key) # RawKey(ret[p].key))
            => /\ ret[q].outcome = "InvalidToken"
               /\ (blobFile.bytes = ret[p].blob /\ keyFile.bytes = ret[q].key)
                     => DecryptAndLoads(keyFile.bytes, blobFile.bytes).outcome
                            = "InvalidToken"
C12_Witness ==
    \E p \in Procs, q \in Procs :
        /\ p # q /\ AllIdle
        /\ Returned(p, "save") /\ ret[p].outcome = "ok"
        /\ Returned(q, "load") /\ ret[q].sawBlob
        /\ keyHist.prev.set /\ keyHist.prev.bytes = ret[p].key
        /\ FernetKeyOk(ret[p].key) /\ FernetKeyOk(ret[q].key)
        /\ RawKey(ret[p].key) # RawKey(ret[q].key)
        /\ keyFile.bytes = ret[q].key
        /\ blobFile.bytes = ret[p].blob /\ ret[q].blob = ret[p].blob
        /\ ret[q].outcome = "InvalidToken"

\* C13: after save_password(label, password) the vault in memory maps label
\* to password, every other label has the password it had when the handler
\* was called, and the labels are those it had then and label: none is
\* removed.
C13_LastWriteWins ==
    (gui.called /\ gui.label # << >> /\ gui.pw # << >>)
        => /\ gui.pc \in {"saving", "ready"}
           /\ DOMAIN SAVED_PASSWORDS = DOMAIN gui.saved \cup {gui.label}
           /\ SAVED_PASSWORDS[gui.label] = gui.pw
           /\ \A l \in DOMAIN gui.saved \ {gui.label} :
                  SAVED_PASSWORDS[l] = gui.saved[l]
C13_Witness ==
    /\ gui.called /\ gui.pc = "ready" /\ gui.msg = "Saved"
    /\ DOMAIN gui.saved = Labels
    /\ gui.saved[gui.label] # gui.pw
    /\ SAVED_PASSWORDS[gui.label] = gui.pw
    /\ \E l \in Labels \ {gui.label} : SAVED_PASSWORDS[l] = gui.saved[l]

\* C14: whenever the application waits for the user (launch_app has loaded
\* the vault, every save_password call made has completed), the blob file
\* decrypted with the key file is SAVED_PASSWORDS, or there is no blob file
\* and SAVED_PASSWORDS is empty.
C14_CacheIsDisk ==
    gui.pc = "ready"
        => IF blobFile.exists
           THEN DecryptAndLoads(keyFile.bytes, blobFile.bytes)
                    = [outcome |-> "ok", map |-> SAVED_PASSWORDS]
           ELSE SAVED_PASSWORDS = EmptyDict
C14_Witness ==
    /\ gui.pc = "ready" /\ gui.msg = "Saved"
    /\ prevSave.set
    /\ DOMAIN SAVED_PASSWORDS = Labels
    /\ blobFile.exists
    /\ DecryptAndLoads(keyFile.bytes, blobFile.bytes).map = SAVED_PASSWORDS

\* C15: after the save handler was called with an empty label or an empty
\* password, the message shown is the error, and SAVED_PASSWORDS, the key
\* file and the blob file are what they were when it was called.
C15_RejectedSave ==
    (gui.called /\ (gui.label = << >> \/ gui.pw = << >>))
        => /\ gui.msg = "Error"
           /\ gui.pc = "ready"
           /\ SAVED_PASSWORDS = gui.saved
           /\ keyFile = gui.keyFile
           /\ blobFile = gui.blobFile
C15_Witness ==
    /\ gui.called /\ gui.label # << >> /\ gui.pw = << >>
    /\ gui.msg = "Error"
    /\ SAVED_PASSWORDS # EmptyDict /\ SAVED_PASSWORDS = gui.saved
    /\ blobFile.exists /\ blobFile = gui.blobFile
====
